---- MODULE Spec2Model ----
(***************************************************************************)
(* Model of the contact-form backend of secure-contact-form:               *)
(*   router.post("/", contactLimiter, validateContactForm, handleContact)  *)
(* Text is a sequence of one-character strings.  A request-body value is   *)
(* a tagged record (undefined / string / number), as JSON delivers it.     *)
(* Time is in milliseconds.                                                *)
(***************************************************************************)
EXTENDS Integers, Sequences, FiniteSets, TLC

(* ---------------------------------------------------------------------- *)
(* Bounds of the model                                                     *)
(* ---------------------------------------------------------------------- *)

\* value of Date.now() when the server starts (any instant later than
\* MAX_TIME_MS after the epoch, as every real clock reading is)
StartTime == 4000000

\* requests received in one behaviour of Spec
MaxRequests == 5

\* requests received in one behaviour of SpecV
MaxSubmissions == 4

\* requests received in one behaviour of SpecC
MaxConcurrent == 4

\* requests received in one behaviour of SpecP
MaxPosts == 4

\* requests the page sends in one behaviour of SpecF and of SpecB
MaxSubmits == 4

\* requests received in one behaviour of SpecM
MaxMessages == 3

\* requests received in one behaviour of SpecD
MaxKept == 5

(* ---------------------------------------------------------------------- *)
(* Program constants                                                       *)
(* ---------------------------------------------------------------------- *)

MIN_TIME_MS == 3000

MAX_TIME_MS == 3600000

windowMs == 60 * 1000

\* the limit of the earlier drafts of the limiter
maxFive == 5

max == 3

(* ---------------------------------------------------------------------- *)
(* JavaScript values and text                                              *)
(* ---------------------------------------------------------------------- *)

Undefined == [t |-> "undefined", s |-> <<>>, n |-> 0]

Str(s) == [t |-> "string", s |-> s, n |-> 0]

Num(n) == [t |-> "number", s |-> <<>>, n |-> n]

\* the boolean false (what normalizeEmail returns for an empty gmail user)
False == [t |-> "boolean", s |-> <<>>, n |-> 0]

Digits == <<"0", "1", "2", "3", "4", "5", "6", "7", "8", "9">>

IsDigit(c) == \E i \in 1..10 : Digits[i] = c

DigitVal(c) == (CHOOSE i \in 1..10 : Digits[i] = c) - 1

UpperCase == <<"A", "B", "C", "G", "H", "M">>

LowerCase == <<"a", "b", "c", "g", "h", "m">>

OnlyLower == {"d", "e", "f", "i", "l", "n", "o", "s", "u", "x"}

IsUpper(c) == \E i \in 1..Len(UpperCase) : UpperCase[i] = c

IsLetter(c) == IsUpper(c) \/ (\E i \in 1..Len(LowerCase) : LowerCase[i] = c) \/ c \in OnlyLower

\* \s of a JavaScript regular expression, restricted to the characters used
IsSpace(c) == c \in {" ", "\t", "\n"}

\* String.prototype.toLowerCase on one character
ToLowerChar(c) ==
  IF IsUpper(c) THEN LowerCase[CHOOSE i \in 1..Len(UpperCase) : UpperCase[i] = c] ELSE c

toLowerCase(s) == [i \in 1..Len(s) |-> ToLowerChar(s[i])]

\* n copies of the character c
Rep(c, n) == [i \in 1..n |-> c]

RECURSIVE NatToString(_)
\* decimal digits of a natural number
NatToString(n) ==
  IF n < 10 THEN <<Digits[n + 1]>>
  ELSE NatToString(n \div 10) \o <<Digits[(n % 10) + 1]>>

\* Number.prototype.toString for an integer
NumberToString(n) == IF n < 0 THEN <<"-">> \o NatToString(0 - n) ELSE NatToString(n)

\* ToString(value) of ECMAScript, as parseInt applies it to its argument
JsToString(v) ==
  CASE v.t = "undefined" -> <<"u", "n", "d", "e", "f", "i", "n", "e", "d">>
    [] v.t = "boolean" -> <<"f", "a", "l", "s", "e">>
    [] v.t = "number" -> NumberToString(v.n)
    [] OTHER -> v.s

\* toString(value) of express-validator, applied before standard
\* validators and sanitizers: undefined becomes the empty string
toStringEV(v) ==
  CASE v.t = "undefined" -> <<>>
    [] v.t = "boolean" -> <<"f", "a", "l", "s", "e">>
    [] v.t = "number" -> NumberToString(v.n)
    [] OTHER -> v.s

\* JavaScript truthiness: if (value)
Truthy(v) ==
  CASE v.t = "undefined" -> FALSE
    [] v.t = "boolean" -> FALSE
    [] v.t = "number" -> v.n # 0
    [] OTHER -> v.s # <<>>

RECURSIVE LeadingSpaces(_)
LeadingSpaces(s) ==
  IF s # <<>> /\ IsSpace(Head(s)) THEN 1 + LeadingSpaces(Tail(s)) ELSE 0

RECURSIVE TrailingSpaces(_)
TrailingSpaces(s) ==
  IF s # <<>> /\ IsSpace(s[Len(s)])
  THEN 1 + TrailingSpaces(SubSeq(s, 1, Len(s) - 1))
  ELSE 0

\* .trim(): strips whitespace from both ends
trim(s) ==
  IF LeadingSpaces(s) = Len(s) THEN <<>>
  ELSE SubSeq(s, LeadingSpaces(s) + 1, Len(s) - TrailingSpaces(s))

RECURSIVE DigitPrefix(_)
\* longest prefix of s made of decimal digits
DigitPrefix(s) ==
  IF s # <<>> /\ IsDigit(Head(s)) THEN <<Head(s)>> \o DigitPrefix(Tail(s)) ELSE <<>>

RECURSIVE DigitsValue(_)
DigitsValue(s) ==
  IF s = <<>> THEN 0 ELSE 10 * DigitsValue(SubSeq(s, 1, Len(s) - 1)) + DigitVal(s[Len(s)])

NaN == [nan |-> TRUE, n |-> 0]

\* parseInt(value, 10): leading whitespace skipped, optional sign, then the
\* longest run of digits; NaN when there is none
parseInt(v) ==
  LET str == JsToString(v)
      S == SubSeq(str, LeadingSpaces(str) + 1, Len(str))
      signed == S # <<>> /\ Head(S) \in {"-", "+"}
      body == IF signed THEN Tail(S) ELSE S
      Z == DigitPrefix(body)
  IN IF Z = <<>> THEN NaN
     ELSE [nan |-> FALSE,
           n |-> IF signed /\ Head(S) = "-" THEN 0 - DigitsValue(Z) ELSE DigitsValue(Z)]

(* ---------------------------------------------------------------------- *)
(* middleware/validation.js                                                *)
(* ---------------------------------------------------------------------- *)

Error(path, msg) == [path |-> path, msg |-> msg]

\* one standard validator with .withMessage: an error when the test fails
Check(ok, path, msg) == IF ok THEN <<>> ELSE <<Error(path, msg)>>

\* a honeypot test that trims the value first
honeypotRuleTrimmed(value) ==
  IF trim(toStringEV(value)) # <<>>
  THEN <<Error("honeypot", "Bot detected via honeypot field.")>> ELSE <<>>

\* body("honeypot").custom
honeypotRule(value) ==
  IF Truthy(value) THEN <<Error("honeypot", "Bot detected via honeypot field.")>> ELSE <<>>

\* a timestamp test that lets a timestamp from the future through
timestampRuleFuture(value, now) ==
  LET submittedAt == parseInt(value)
  IN IF submittedAt.nan \/ submittedAt.n = 0
       THEN <<Error("form_timestamp", "Missing or invalid timestamp.")>>
     ELSE IF now - submittedAt.n >= 0 /\ now - submittedAt.n < MIN_TIME_MS
       THEN <<Error("form_timestamp", "Form submitted too quickly. Possible bot.")>>
     ELSE IF now - submittedAt.n > MAX_TIME_MS
       THEN <<Error("form_timestamp", "Form expired. Please refresh the page and try again.")>>
     ELSE <<>>

\* a timestamp test that rejects the two thresholds themselves
timestampRuleStrict(value, now) ==
  LET submittedAt == parseInt(value)
  IN IF submittedAt.nan \/ submittedAt.n = 0
       THEN <<Error("form_timestamp", "Missing or invalid timestamp.")>>
     ELSE IF now - submittedAt.n <= MIN_TIME_MS
       THEN <<Error("form_timestamp", "Form submitted too quickly. Possible bot.")>>
     ELSE IF now - submittedAt.n >= MAX_TIME_MS
       THEN <<Error("form_timestamp", "Form expired. Please refresh the page and try again.")>>
     ELSE <<>>

\* body("form_timestamp").custom, with now = Date.now()
timestampRule(value, now) ==
  LET submittedAt == parseInt(value)
  IN IF submittedAt.nan \/ submittedAt.n = 0
       THEN <<Error("form_timestamp", "Missing or invalid timestamp.")>>
     ELSE IF now - submittedAt.n < MIN_TIME_MS
       THEN <<Error("form_timestamp", "Form submitted too quickly. Possible bot.")>>
     ELSE IF now - submittedAt.n > MAX_TIME_MS
       THEN <<Error("form_timestamp", "Form expired. Please refresh the page and try again.")>>
     ELSE <<>>

\* /^[A-Za-z\s\-'.]*$/: the pattern with a star, which the empty text matches
matchesNameStar(s) ==
  \A i \in 1..Len(s) : IsLetter(s[i]) \/ IsSpace(s[i]) \/ s[i] \in {"-", "'", "."}

\* /^[A-Za-z\s\-'.]+$/
matchesName(s) ==
  /\ s # <<>>
  /\ \A i \in 1..Len(s) : IsLetter(s[i]) \/ IsSpace(s[i]) \/ s[i] \in {"-", "'", "."}

\* a name chain that stops at its first failing rule (.bail() after each)
nameRulesBail(path, label, value) ==
  LET v == trim(toStringEV(value))
  IN [value |-> Str(v),
      errors |-> IF v = <<>> THEN <<Error(path, label \o " is required.")>>
                 ELSE IF Len(v) > 50
                   THEN <<Error(path, label \o " cannot exceed 50 characters.")>>
                 ELSE Check(matchesName(v), path, label \o " contains invalid characters.")]

\* the first_name and last_name chains: trim, notEmpty, isLength, matches
nameRules(path, label, value) ==
  LET v == trim(toStringEV(value))
  IN [value |-> Str(v),
      errors |-> Check(v # <<>>, path, label \o " is required.")
                 \o Check(Len(v) <= 50, path, label \o " cannot exceed 50 characters.")
                 \o Check(matchesName(v), path, label \o " contains invalid characters.")]

\* position of the last occurrence of c in s, 0 when there is none
LastIndexOf(s, c) ==
  IF \E i \in 1..Len(s) : s[i] = c
  THEN CHOOSE i \in 1..Len(s) : s[i] = c /\ \A j \in (i + 1)..Len(s) : s[j] # c
  ELSE 0

\* position of the first occurrence of c in s, 0 when there is none
IndexOf(s, c) ==
  IF \E i \in 1..Len(s) : s[i] = c
  THEN CHOOSE i \in 1..Len(s) : s[i] = c /\ \A j \in 1..(i - 1) : s[j] # c
  ELSE 0

RECURSIVE Split(_, _)
\* String.prototype.split on a one-character separator
Split(s, c) ==
  IF IndexOf(s, c) = 0 THEN <<s>>
  ELSE <<SubSeq(s, 1, IndexOf(s, c) - 1)>> \o Split(SubSeq(s, IndexOf(s, c) + 1, Len(s)), c)

\* email.split('@'); domain = parts.pop(); user = parts.join('@')
UserOf(s) == IF LastIndexOf(s, "@") = 0 THEN <<>> ELSE SubSeq(s, 1, LastIndexOf(s, "@") - 1)

DomainOf(s) == SubSeq(s, LastIndexOf(s, "@") + 1, Len(s))

\* a character of an unquoted local part (the punctuation restricted to
\* the characters used)
IsUserChar(c) == IsLetter(c) \/ IsDigit(c) \/ c \in {"'", "+", "-", "_"}

\* isFQDN of validator.js with its default options (require_tld)
isFQDN(d) ==
  LET parts == Split(d, ".")
      tld == parts[Len(parts)]
  IN /\ Len(parts) >= 2
     /\ Len(tld) >= 2
     /\ \A i \in 1..Len(tld) : IsLetter(tld[i])
     /\ \A k \in 1..Len(parts) :
          /\ parts[k] # <<>>
          /\ Len(parts[k]) <= 63
          /\ \A i \in 1..Len(parts[k]) :
               IsLetter(parts[k][i]) \/ IsDigit(parts[k][i]) \/ parts[k][i] = "-"
          /\ parts[k][1] # "-"
          /\ parts[k][Len(parts[k])] # "-"

\* isEmail of validator.js with its default options
isEmail(s) ==
  LET user == UserOf(s)
      domain == DomainOf(s)
      userParts == Split(user, ".")
  IN /\ Len(s) <= 254
     /\ Len(user) <= 64
     /\ Len(domain) <= 254
     /\ isFQDN(domain)
     /\ \A k \in 1..Len(userParts) :
          /\ userParts[k] # <<>>
          /\ \A i \in 1..Len(userParts[k]) : IsUserChar(userParts[k][i])

GmailDomains == {<<"g", "m", "a", "i", "l", ".", "c", "o", "m">>,
                 <<"g", "o", "o", "g", "l", "e", "m", "a", "i", "l", ".", "c", "o", "m">>}

\* normalizeEmail of validator.js with its default options: the domain is
\* lower-cased; a gmail user loses its sub-address and dots; the user is
\* lower-cased.  (The other provider-specific branches strip a sub-address
\* in the same way and are not drawn by the inputs of this model.)
normalizeEmail(s) ==
  LET user == UserOf(s)
      domain == toLowerCase(DomainOf(s))
      noSub == Split(user, "+")[1]
      noDots == SelectSeq(noSub, LAMBDA c : c # ".")
  IN IF domain \in GmailDomains
       THEN IF noDots = <<>> THEN False
            ELSE Str(toLowerCase(noDots) \o <<"@">> \o <<"g", "m", "a", "i", "l", ".", "c", "o", "m">>)
     ELSE Str(toLowerCase(user) \o <<"@">> \o domain)

\* an email chain without the normalizeEmail sanitizer
emailRulesNoNormalize(value) ==
  LET v == trim(toStringEV(value))
  IN [value |-> Str(v),
      errors |-> Check(v # <<>>, "email", "Email is required.")
                 \o Check(isEmail(v), "email", "Please enter a valid email address.")
                 \o Check(Len(v) <= 100, "email", "Email is too long.")]

\* the email chain: trim, notEmpty, isEmail, normalizeEmail, isLength
emailRules(value) ==
  LET v == trim(toStringEV(value))
      norm == normalizeEmail(v)
  IN [value |-> norm,
      errors |-> Check(v # <<>>, "email", "Email is required.")
                 \o Check(isEmail(v), "email", "Please enter a valid email address.")
                 \o Check(Len(toStringEV(norm)) <= 100, "email", "Email is too long.")]

\* a message chain without the trim sanitizer: the lengths are those of the
\* value as it was sent
messageRulesUntrimmed(value) ==
  LET v == toStringEV(value)
  IN [value |-> Str(v),
      errors |-> Check(v # <<>>, "message", "Message is required.")
                 \o Check(Len(v) >= 5, "message", "Message must be at least 5 characters.")
                 \o Check(Len(v) <= 2000, "message", "Message cannot exceed 2000 characters.")]

\* a message chain with a sanitizer that cuts the message to 2000 characters
messageRulesTruncate(value) ==
  LET v == trim(toStringEV(value))
  IN [value |-> Str(SubSeq(v, 1, IF Len(v) > 2000 THEN 2000 ELSE Len(v))),
      errors |-> Check(v # <<>>, "message", "Message is required.")
                 \o Check(Len(v) >= 5, "message", "Message must be at least 5 characters.")
                 \o Check(Len(v) <= 2000, "message", "Message cannot exceed 2000 characters.")]

\* the message chain: trim, notEmpty, isLength min, isLength max
messageRules(value) ==
  LET v == trim(toStringEV(value))
  IN [value |-> Str(v),
      errors |-> Check(v # <<>>, "message", "Message is required.")
                 \o Check(Len(v) >= 5, "message", "Message must be at least 5 characters.")
                 \o Check(Len(v) <= 2000, "message", "Message cannot exceed 2000 characters.")]

\* chains run in two stages: the four field chains are skipped as soon as
\* the honeypot or the timestamp chain has failed
runChainsFailFast(body, now) ==
  LET bot == honeypotRule(body.honeypot) \o timestampRule(body.form_timestamp, now)
      fn == nameRules("first_name", "First name", body.first_name)
      ln == nameRules("last_name", "Last name", body.last_name)
      em == emailRules(body.email)
      ms == messageRules(body.message)
  IN IF bot # <<>> THEN [body |-> body, errors |-> bot]
     ELSE [body |-> [honeypot |-> body.honeypot,
                     form_timestamp |-> body.form_timestamp,
                     first_name |-> fn.value,
                     last_name |-> ln.value,
                     email |-> em.value,
                     message |-> ms.value],
           errors |-> fn.errors \o ln.errors \o em.errors \o ms.errors]

\* chains whose errors come out with the message chain ahead of the email chain
runChainsMessageFirst(body, now) ==
  LET fn == nameRules("first_name", "First name", body.first_name)
      ln == nameRules("last_name", "Last name", body.last_name)
      em == emailRules(body.email)
      ms == messageRules(body.message)
  IN [body |-> [honeypot |-> body.honeypot,
                form_timestamp |-> body.form_timestamp,
                first_name |-> fn.value,
                last_name |-> ln.value,
                email |-> em.value,
                message |-> ms.value],
      errors |-> honeypotRule(body.honeypot)
                 \o timestampRule(body.form_timestamp, now)
                 \o fn.errors \o ln.errors \o ms.errors \o em.errors]

\* The six validation chains of validateContactForm, in declaration order.
\* Every chain runs and calls next(); sanitizers write their result back
\* to req.body; the errors accumulate in the request's validation result.
runChains(body, now) ==
  LET fn == nameRules("first_name", "First name", body.first_name)
      ln == nameRules("last_name", "Last name", body.last_name)
      em == emailRules(body.email)
      ms == messageRules(body.message)
  IN [body |-> [honeypot |-> body.honeypot,
                form_timestamp |-> body.form_timestamp,
                first_name |-> fn.value,
                last_name |-> ln.value,
                email |-> em.value,
                message |-> ms.value],
      errors |-> honeypotRule(body.honeypot)
                 \o timestampRule(body.form_timestamp, now)
                 \o fn.errors \o ln.errors \o em.errors \o ms.errors]

\* a final middleware that forgets the return and always calls next()
finalMiddlewareNoReturn(errors) == "next"

\* The final middleware of validateContactForm: validationResult(req),
\* then either res.status(400).json({ errors }) or next().
finalMiddleware(errors) == IF errors # <<>> THEN "respond400" ELSE "next"

(* ---------------------------------------------------------------------- *)
(* middleware/rateLimiter.js                                               *)
(* ---------------------------------------------------------------------- *)

NoClient == [exists |-> FALSE, totalHits |-> 0, resetTime |-> 0]

\* an expiry test that is late by one millisecond
windowExpiredLate(client, now) == client.resetTime < now

\* the window of a client has run out at time now
windowExpired(client, now) == client.resetTime <= now

\* one key for every request, whatever its address
keyGeneratorGlobal(r) == "A"

\* the key of a request in the store: the client's address
keyGenerator(r) == r.ip

\* a read of the window that was made before the await, when the request
\* entered the limiter
getClientEarly(st, r) == r.seen

\* the window the store holds for the key of r when increment runs
getClient(st, r) == st[keyGenerator(r)]

\* The store's increment for one key at time now: a key that is unknown or
\* whose window has run out starts a new window; then the hit is counted.
increment(client, now) ==
  LET cur == IF ~client.exists \/ windowExpired(client, now)
             THEN [exists |-> TRUE, totalHits |-> 0, resetTime |-> now + windowMs]
             ELSE client
  IN [cur EXCEPT !.totalHits = @ + 1]

\* the limiter's decision on the counted hit
overLimit(totalHits) == totalHits > max

TooMany == "Too many contact form submissions. Please try again later."

\* the library's default answer (the message option): a plain-text body
limitHandlerPlainText == [status |-> 429, json |-> [keys |-> {}, message |-> TooMany, errors |-> <<>>]]

\* handler: res.status(429).json({ message })
limitHandler ==
  [status |-> 429, json |-> [keys |-> {"message"}, message |-> TooMany, errors |-> <<>>]]

(* ---------------------------------------------------------------------- *)
(* controllers/contactController.js                                        *)
(* ---------------------------------------------------------------------- *)

ThankYou == "Thank you for contacting us! Your message has been received."

\* the line handleContact writes to the console ahead of the object
NewSubmission == "New contact submission:"

\* a log of everything the request body holds
logEntryWholeBody(body) == body

\* the object handleContact writes to the console
logEntry(body) ==
  [first_name |-> body.first_name, last_name |-> body.last_name,
   email |-> body.email, message |-> body.message]

(* ---------------------------------------------------------------------- *)
(* public/index.html and public/script.js                                  *)
(* ---------------------------------------------------------------------- *)

\* form.querySelectorAll("input[required], textarea[required]"), by id
inputs == {"first_name", "last_name", "email", "message"}

\* the elements of the page that document.getElementById finds for the
\* path of a server error (the honeypot input has a name but no id)
ElementIds == inputs \cup {"form_timestamp"}

Oops == "Oops! Please correct the highlighted fields in red before submitting."

Blocked == "Submission blocked: Possible bot detected."

\* the page after DOMContentLoaded at time t: empty inputs, the timestamp
\* set, an empty error span appended to every required input.  errorField
\* holds the ids of the elements with the class error-field.  Two fields
\* record the history of this page load for the properties: stampedBy tells
\* what wrote form_timestamp last ("load" or "success"), expired whether the
\* server has answered "Form expired" to the page.
LoadedPage(t) ==
  [first_name |-> <<>>, last_name |-> <<>>, email |-> <<>>, message |-> <<>>,
   honeypot |-> <<>>, form_timestamp |-> NumberToString(t),
   errorField |-> {}, errorSpan |-> [id \in inputs |-> ""],
   responseText |-> "", responseClass |-> "",
   stampedBy |-> "load", expired |-> FALSE]

\* getFieldLabel: the text of the label of the field
getFieldLabel(id) ==
  CASE id = "first_name" -> "First Name"
    [] id = "last_name" -> "Last Name"
    [] id = "email" -> "Email"
    [] id = "message" -> "Message"

\* isValidEmail: /^[^\s@]+@[^\s@]+\.[^\s@]+$/
isValidEmail(s) ==
  /\ \A i \in 1..Len(s) : ~IsSpace(s[i])
  /\ Cardinality({i \in 1..Len(s) : s[i] = "@"}) = 1
  /\ IndexOf(s, "@") > 1
  /\ \E k \in (IndexOf(s, "@") + 2)..(Len(s) - 1) : s[k] = "."

\* validateField on the input id of the page pg: the result and the text
\* it leaves in the error span of the input
validateField(pg, id) ==
  IF trim(pg[id]) = <<>>
    THEN [ok |-> FALSE, text |-> getFieldLabel(id) \o " is required."]
  ELSE IF id \in {"first_name", "last_name"} /\ ~matchesName(trim(pg[id]))
    THEN [ok |-> FALSE,
          text |-> getFieldLabel(id)
                   \o " can only contain letters, spaces, hyphens, apostrophes, and periods."]
  ELSE IF id = "email" /\ ~isValidEmail(pg[id])
    THEN [ok |-> FALSE, text |-> "Please enter a valid email address."]
  ELSE IF id = "message" /\ Len(trim(pg[id])) < 10
    THEN [ok |-> FALSE, text |-> "Message must be at least 10 characters."]
  ELSE [ok |-> TRUE, text |-> ""]

\* updateFormStatus: the general message follows the error-field classes
updateFormStatus(pg) ==
  IF pg.errorField # {}
  THEN [pg EXCEPT !.responseText = Oops, !.responseClass = "error"]
  ELSE [pg EXCEPT !.responseText = "", !.responseClass = ""]

\* Object.fromEntries(new FormData(form).entries()): every value is text
formData(pg) ==
  [honeypot |-> Str(pg.honeypot), form_timestamp |-> Str(pg.form_timestamp),
   first_name |-> Str(pg.first_name), last_name |-> Str(pg.last_name),
   email |-> Str(pg.email), message |-> Str(pg.message)]

\* the message of the error that res.json() throws for a body that is not JSON
NotJson == "Unexpected token < in JSON at position 0"

\* a mapping of the server's errors that empties the inputs as well
mapErrorsClear(pg, errors) ==
  [pg EXCEPT !.first_name = <<>>, !.last_name = <<>>, !.email = <<>>, !.message = <<>>,
             !.errorField = @ \cup {id \in ElementIds : \E i \in 1..Len(errors) : errors[i].path = id}]

\* the server's errors mapped back onto the page: every error whose path
\* is the id of an element marks that element and, if the element has an
\* error span, puts its message there (a later error of the same path
\* overwrites an earlier one)
mapErrors(pg, errors) ==
  LET at(id) == SelectSeq(errors, LAMBDA e : e.path = id)
  IN [pg EXCEPT
        !.errorField = @ \cup {id \in ElementIds : at(id) # <<>>},
        !.errorSpan = [id \in inputs |->
                         IF at(id) # <<>> THEN at(id)[Len(at(id))].msg ELSE @[id]]]

\* the message of the error that fetch throws when the network fails
FailedToFetch == "Failed to fetch"

\* a catch block that swallows the error
showFailureSilent(pg, msg) == pg

\* the catch block of the submit handler, for an error with the message msg
showFailure(pg, msg) ==
  [pg EXCEPT !.responseText = IF msg # "" THEN msg
                              ELSE "Something went wrong. Please try again.",
             !.responseClass = "error"]

\* the submit handler from the answer of fetch on, at time t: the page
\* after the response with this status and body has been handled
showResponse(pg, status, json, t) ==
  IF json.keys = {}
    THEN showFailure(pg, NotJson)
  ELSE IF status = 200
    THEN [pg EXCEPT !.responseText = IF json.message # "" THEN json.message
                                     ELSE "Message sent successfully!",
                    !.responseClass = "success",
                    !.first_name = <<>>, !.last_name = <<>>, !.email = <<>>,
                    !.message = <<>>, !.honeypot = <<>>,
                    !.form_timestamp = NumberToString(t)]
  ELSE IF json.errors # <<>>
    THEN [mapErrors(pg, json.errors) EXCEPT
            !.responseText =
               IF \E i \in 1..Len(json.errors) :
                    json.errors[i].path \in {"honeypot", "form_timestamp"}
               THEN Blocked ELSE Oops,
            !.responseClass = "error"]
  ELSE IF json.message # "" /\ status = 429
    THEN [pg EXCEPT !.responseText = json.message, !.responseClass = "error"]
  ELSE showFailure(pg, IF json.message # "" THEN json.message ELSE "Something went wrong")

(* ---------------------------------------------------------------------- *)
(* State                                                                   *)
(* ---------------------------------------------------------------------- *)

VARIABLES
  now,       \* Date.now()
  store,     \* the limiter's store: client address -> window
  inflight,  \* the requests inside the middleware pipeline, answered or not
  nreq,      \* requests received so far
  console,   \* the record the latest step wrote to the console, if any
  hist,      \* per client address, the limiter's decisions in order
  page       \* the contact page in the browser of client A

vars == <<now, store, inflight, nreq, console, hist, page>>

Clients == {"A", "B"}

Nothing == [written |-> FALSE]

Init ==
  /\ now = StartTime
  /\ store = [c \in Clients |-> NoClient]
  /\ inflight = {}
  /\ nreq = 0
  /\ console = Nothing
  /\ hist = [c \in Clients |-> <<>>]
  /\ page = LoadedPage(StartTime)

\* the clock advances to the instant t
Tick(t) ==
  /\ t > now
  /\ now' = t
  /\ console' = Nothing
  /\ UNCHANGED <<store, inflight, nreq, hist, page>>

\* the request number id, from address ip, entering at the given stage
NewRequest(id, ip, body, stage, parses) ==
  [id |-> id, ip |-> ip, sent |-> body, body |-> body,
   stage |-> stage, totalHits |-> 0, validatedAt |-> 0,
   errors |-> <<>>, validated |-> FALSE, handled |-> FALSE,
   status |-> 0, json |-> [keys |-> {}, message |-> "", errors |-> <<>>],
   sends |-> 0, seen |-> NoClient, parses |-> parses]

\* POST /api/contact from address ip with the parsed body arrives at the router
Receive(ip, body, limit) ==
  /\ nreq < limit
  /\ nreq' = nreq + 1
  /\ inflight' = inflight \cup {NewRequest(nreq + 1, ip, body, "contactLimiter", TRUE)}
  /\ console' = Nothing
  /\ UNCHANGED <<now, store, hist, page>>

\* req.body before a body parser has filled it
NoBody ==
  [honeypot |-> Undefined, form_timestamp |-> Undefined, first_name |-> Undefined,
   last_name |-> Undefined, email |-> Undefined, message |-> Undefined]

\* POST /api/contact from address ip reaches the application: its payload
\* is JSON text for the object body, or (parses = FALSE) text that is not JSON
Post(ip, body, parses, limit) ==
  /\ nreq < limit
  /\ nreq' = nreq + 1
  /\ inflight' = inflight \cup {NewRequest(nreq + 1, ip, body, "express.json", parses)}
  /\ console' = Nothing
  /\ UNCHANGED <<now, store, hist, page>>

\* an answer whose 429 message tells a client that is further over the limit
\* that it is
RespondTelling(r, status, json) ==
  [r EXCEPT !.stage = "done", !.status = status,
            !.json = [json EXCEPT !.message = IF status = 429 /\ r.totalHits > max + 1
                                              THEN "Too many contact form submissions. Still blocked."
                                              ELSE @],
            !.sends = @ + 1]

\* res.status(status).json(json) answers the request r
Respond(r, status, json) ==
  [r EXCEPT !.stage = "done", !.status = status, !.json = json, !.sends = @ + 1]

\* The page that Express's default error handler sends for an error passed
\* to next(): the error's status with an HTML body, so that the response
\* has no JSON member at all.
errorPage(status) ==
  [status |-> status, json |-> [keys |-> {}, message |-> "", errors |-> <<>>]]

\* express.json(): the payload is parsed into req.body and the request goes
\* on to the router; a payload that is not JSON raises a 400 error, which
\* no middleware of the application handles
BodyParser(r) ==
  /\ r.stage = "express.json"
  /\ inflight' = (inflight \ {r}) \cup
       {IF r.parses
        THEN [r EXCEPT !.stage = "contactLimiter"]
        ELSE Respond(r, errorPage(400).status, errorPage(400).json)}
  /\ console' = Nothing
  /\ UNCHANGED <<now, store, nreq, hist, page>>

\* a limiter with skipFailedRequests: the hit of a request that is answered
\* 429 or 400 is taken back
CountHitSkipFailed(r) ==
  /\ LET client == increment(getClient(store, r), now)
          r1 == [r EXCEPT !.totalHits = client.totalHits, !.seen = NoClient]
          failed == overLimit(client.totalHits) \/ runChains(r.body, now).errors # <<>>
     IN /\ store' = [store EXCEPT ![keyGenerator(r)] =
                       IF failed THEN [client EXCEPT !.totalHits = @ - 1] ELSE client]
        /\ hist' = [hist EXCEPT ![r.ip] =
                      Append(@, [at |-> now, allowed |-> ~overLimit(client.totalHits),
                                 totalHits |-> client.totalHits,
                                 resetTime |-> client.resetTime])]
        /\ inflight' = (inflight \ {r}) \cup
             {IF overLimit(client.totalHits)
              THEN Respond(r1, limitHandler.status, limitHandler.json)
              ELSE [r1 EXCEPT !.stage = "validateContactForm"]}
  /\ console' = Nothing
  /\ UNCHANGED <<now, nreq, page>>

\* the limiter's work on r from store.increment(key) on: the hit of r.ip
\* is counted, then the 429 handler or next()
CountHit(r) ==
  /\ LET client == increment(getClient(store, r), now)
          r1 == [r EXCEPT !.totalHits = client.totalHits, !.seen = NoClient]
     IN /\ store' = [store EXCEPT ![keyGenerator(r)] = client]
        /\ hist' = [hist EXCEPT ![r.ip] =
                      Append(@, [at |-> now, allowed |-> ~overLimit(client.totalHits),
                                 totalHits |-> client.totalHits,
                                 resetTime |-> client.resetTime])]
        /\ inflight' = (inflight \ {r}) \cup
             {IF overLimit(client.totalHits)
              THEN Respond(r1, limitHandler.status, limitHandler.json)
              ELSE [r1 EXCEPT !.stage = "validateContactForm"]}
  /\ console' = Nothing
  /\ UNCHANGED <<now, nreq, page>>

\* contactLimiter, run without another request in between
ContactLimiter(r) == r.stage = "contactLimiter" /\ CountHit(r)

\* contactLimiter up to its await of store.increment(key): the key of the
\* request is computed; other requests can run before the store is reached
LimiterKey(r) ==
  /\ r.stage = "contactLimiter"
  /\ inflight' = (inflight \ {r}) \cup
       {[r EXCEPT !.stage = "increment", !.seen = store[keyGenerator(r)]]}
  /\ console' = Nothing
  /\ UNCHANGED <<now, store, nreq, hist, page>>

\* contactLimiter from store.increment(key) on
LimiterIncrement(r) == r.stage = "increment" /\ CountHit(r)

\* validateContactForm: the six chains, then the final middleware
ValidateContactForm(r) ==
  /\ r.stage = "validateContactForm"
  /\ LET res == runChains(r.body, now)
          r1 == [r EXCEPT !.body = res.body, !.errors = res.errors,
                          !.validatedAt = now, !.validated = TRUE]
     IN inflight' = (inflight \ {r}) \cup
          {IF finalMiddleware(res.errors) = "respond400"
           THEN Respond(r1, 400, [keys |-> {"errors"}, message |-> "",
                                  errors |-> res.errors])
           ELSE [r1 EXCEPT !.stage = "handleContact"]}
  /\ console' = Nothing
  /\ UNCHANGED <<now, store, nreq, hist, page>>

\* handleContact: logs a heading and the four business fields, then responds 200
HandleContact(r) ==
  /\ r.stage = "handleContact"
  /\ console' = [written |-> TRUE, heading |-> NewSubmission, entry |-> logEntry(r.body)]
  /\ inflight' = (inflight \ {r}) \cup
       {Respond([r EXCEPT !.handled = TRUE], 200,
                [keys |-> {"message"}, message |-> ThankYou, errors |-> <<>>])}
  /\ UNCHANGED <<now, store, nreq, hist, page>>

\* the response has been sent: the request is discarded
Finish(r) ==
  /\ r.stage = "done"
  /\ inflight' = inflight \ {r}
  /\ console' = Nothing
  /\ UNCHANGED <<now, store, nreq, hist, page>>

\* the responses the page has handled
Shown == {r \in inflight : r.stage = "shown"}

\* The visitor (or a script driving the page) fills the four inputs with f
\* and the honeypot with h.  The input listener of every required input
\* removes its error-field class, empties its error span and calls
\* updateFormStatus.
Fill(f, h) ==
  /\ inflight = Shown
  /\ page' = updateFormStatus(
       [page EXCEPT !.first_name = f.first_name.s, !.last_name = f.last_name.s,
                    !.email = f.email.s, !.message = f.message.s, !.honeypot = h,
                    !.errorField = @ \ inputs,
                    !.errorSpan = [id \in inputs |-> ""]])
  /\ inflight' = {}
  /\ console' = Nothing
  /\ UNCHANGED <<now, store, nreq, hist>>

\* The submit handler up to its fetch: every required input is validated;
\* if one fails nothing is sent; otherwise the page says "Sending
\* message..." and the form's data is posted as JSON (which the body parser
\* accepts, so that the request reaches the router).
Submit(limit) ==
  /\ inflight = Shown
  /\ nreq < limit
  /\ LET checked == updateFormStatus(
           [page EXCEPT !.errorField = (@ \ inputs)
                           \cup {id \in inputs : ~validateField(page, id).ok},
                        !.errorSpan = [id \in inputs |-> validateField(page, id).text]])
     IN IF \E id \in inputs : ~validateField(page, id).ok
        THEN /\ page' = checked
             /\ inflight' = {}
             /\ nreq' = nreq
        ELSE /\ page' = [checked EXCEPT !.responseText = "Sending message...",
                                        !.responseClass = "info"]
             /\ inflight' = {NewRequest(nreq + 1, "A", formData(page), "contactLimiter", TRUE)}
             /\ nreq' = nreq + 1
  /\ console' = Nothing
  /\ UNCHANGED <<now, store, hist>>

\* the page after the response of r has been handled, with its history fields
Handled(r) ==
  LET shown == showResponse(page, r.status, r.json, now)
  IN [shown EXCEPT
        !.stampedBy = IF shown.responseClass = "success" THEN "success" ELSE @,
        !.expired = @ \/ \E i \in 1..Len(r.json.errors) :
                            r.json.errors[i] = Error("form_timestamp",
                              "Form expired. Please refresh the page and try again.")]

\* a submit handler that posts the form again by itself after an error
DeliverRetry(r) ==
  /\ r.stage = "done"
  /\ page' = Handled(r)
  /\ IF r.status # 200 /\ nreq < MaxSubmits
     THEN /\ inflight' = {[r EXCEPT !.stage = "shown"],
                          NewRequest(nreq + 1, "A", formData(page), "contactLimiter", TRUE)}
          /\ nreq' = nreq + 1
     ELSE /\ inflight' = (inflight \ {r}) \cup {[r EXCEPT !.stage = "shown"]}
          /\ nreq' = nreq
  /\ console' = Nothing
  /\ UNCHANGED <<now, store, hist>>

\* The submit handler from the answer of fetch on: the response of r is
\* shown on the page.
Deliver(r) ==
  /\ r.stage = "done"
  /\ page' = Handled(r)
  /\ inflight' = (inflight \ {r}) \cup {[r EXCEPT !.stage = "shown"]}
  /\ console' = Nothing
  /\ UNCHANGED <<now, store, nreq, hist>>

\* The network fails: the request never reaches the server, or its response
\* never reaches the page.  fetch rejects and the catch block runs; the
\* page has no status and no body for the request.
FetchFails(r) ==
  /\ r.stage \in {"contactLimiter", "done"}
  /\ page' = showFailure(page, FailedToFetch)
  /\ inflight' = (inflight \ {r}) \cup
       {[r EXCEPT !.stage = "shown", !.status = 0,
                  !.json = [keys |-> {}, message |-> "", errors |-> <<>>]]}
  /\ console' = Nothing
  /\ UNCHANGED <<now, store, nreq, hist>>

\* The request is answered before it reaches the router, with the status
\* and body of resp: by express.json (its error page for a payload over its
\* size limit) or by a server in front of the application.
Intercept(r, resp) ==
  /\ r.stage = "contactLimiter"
  /\ inflight' = (inflight \ {r}) \cup {Respond(r, resp.status, resp.json)}
  /\ console' = Nothing
  /\ UNCHANGED <<now, store, nreq, hist, page>>

\* The visitor reloads the page: DOMContentLoaded runs again.
Reload ==
  /\ inflight = Shown
  /\ page' = LoadedPage(now)
  /\ inflight' = {}
  /\ console' = Nothing
  /\ UNCHANGED <<now, store, nreq, hist>>

(* ---------------------------------------------------------------------- *)
(* Requests                                                                *)
(* ---------------------------------------------------------------------- *)

\* a form filled in the way the page and a person fill it
GoodFields ==
  [first_name |-> Str(<<" ", "A", "l", " ">>), last_name |-> Str(<<"M", "'", "B", "o", "-", "x", " ", "A", ".">>),
   email |-> Str(<<"A", "l", ".", "B", "+", "x", "@", "G", "M", "a", "i", "l", ".", "c", "o", "m">>), message |-> Str(<<"H", "e", "l", "l", "o">>)]

\* every field at the largest size its rules accept
EdgeFields ==
  [first_name |-> Str(Rep("a", 50)), last_name |-> Str(Rep("b", 50)),
   email |-> Str(Rep("a", 64) \o <<"@">> \o Rep("b", 31) \o <<".", "c", "o", "m">>),
   message |-> Str(Rep("m", 2000))]

\* every field one character longer than its rules accept
LongFields ==
  [first_name |-> Str(Rep("a", 50) \o <<"1">>), last_name |-> Str(Rep("b", 51)),
   email |-> Str(Rep("a", 64) \o <<"@">> \o Rep("b", 32) \o <<".", "c", "o", "m">>),
   message |-> Str(Rep("m", 2001))]

\* business fields: valid ones, and ones breaking the rules of one field or of all
FieldChoices ==
  {GoodFields, EdgeFields, LongFields,
   [GoodFields EXCEPT !.first_name = Str(<<>>)],
   [GoodFields EXCEPT !.last_name = Str(<<" ", " ">>)],
   [GoodFields EXCEPT !.last_name = Str(<<"B", "0">>)],
   [GoodFields EXCEPT !.email = Str(<<"a", "b">>)],
   [GoodFields EXCEPT !.message = Str(<<"H", "i">>)],
   [first_name |-> Undefined, last_name |-> Str(Rep("b", 51)),
    email |-> Undefined, message |-> Str(<<" ">>)]}

Honeypots == {Undefined, Str(<<>>), Str(<<"x">>), Str(<<" ">>)}

\* elapsed times around the two thresholds, and a clock ahead of the server
ElapsedChoices == {0 - 1, 0, MIN_TIME_MS - 1, MIN_TIME_MS, MAX_TIME_MS, MAX_TIME_MS + 1}

\* values of form_timestamp a client can send at time t
Timestamps(t) ==
  {Undefined, Str(<<>>), Str(<<"a", "b", "c">>), Str(<<"0">>), Num(0), Str(<<"-", "5">>),
   Num(t - MIN_TIME_MS),
   Str(<<" ">> \o NumberToString(t - MIN_TIME_MS) \o <<"x">>)}
  \cup {Str(NumberToString(t - e)) : e \in ElapsedChoices}

MakeBody(h, ts, f) ==
  [honeypot |-> h, form_timestamp |-> ts, first_name |-> f.first_name,
   last_name |-> f.last_name, email |-> f.email, message |-> f.message]

\* the submissions of SpecV: every combination
Submissions(t) ==
  {MakeBody(h, ts, f) : h \in Honeypots, ts \in Timestamps(t), f \in FieldChoices}

\* the submissions of Spec: a person, and a bot that fills the honeypot and
\* leaves the first name out
Bodies(t) ==
  {MakeBody(Str(<<>>), Str(NumberToString(t - MIN_TIME_MS)), GoodFields),
   MakeBody(Str(<<"x">>), Str(NumberToString(t - MIN_TIME_MS)),
            [GoodFields EXCEPT !.first_name = Str(<<>>)])}

\* instants of Spec: around the start, and around one window later
Instants ==
  {StartTime + 1, StartTime + windowMs - 1, StartTime + windowMs, StartTime + windowMs + 1}

\* the instant of SpecV: the millisecond after the start
InstantsV == {StartTime + 1}

(* ---------------------------------------------------------------------- *)
(* Specifications                                                          *)
(* ---------------------------------------------------------------------- *)

\* Requests are served one at a time: with the in-memory store and the
\* synchronous validators every await of the pipeline is a microtask, so
\* one request runs from the limiter to its response before the next one
\* starts.  The clock can advance between the stages.
Next ==
  \/ \E t \in Instants : Tick(t)
  \/ inflight = {} /\ \E ip \in Clients, b \in Bodies(now) : Receive(ip, b, MaxRequests)
  \/ \E r \in inflight : ContactLimiter(r)
  \/ \E r \in inflight : ValidateContactForm(r)
  \/ \E r \in inflight : HandleContact(r)
  \/ \E r \in inflight : Finish(r)

Spec == Init /\ [][Next]_vars

\* One client sending every kind of submission.
NextV ==
  \/ \E t \in InstantsV : Tick(t)
  \/ inflight = {} /\ \E b \in Submissions(now) : Receive("A", b, MaxSubmissions)
  \/ \E r \in inflight : ContactLimiter(r)
  \/ \E r \in inflight : ValidateContactForm(r)
  \/ \E r \in inflight : HandleContact(r)
  \/ \E r \in inflight : Finish(r)

SpecV == Init /\ [][NextV]_vars

\* the submission of SpecC: a bot's, with the honeypot filled in
BodiesC(t) == {MakeBody(Str(<<"x">>), Str(NumberToString(t - MIN_TIME_MS)), GoodFields)}

\* A burst of bot submissions of one client arriving together, within one
\* millisecond: any number of them is inside the pipeline at once, and
\* their steps interleave in every order, the limiter's two steps included.
\* (The validation answers each of them, so that handleContact never runs.)
NextC ==
  \/ \E b \in BodiesC(now) : Receive("A", b, MaxConcurrent)
  \/ \E r \in inflight : LimiterKey(r)
  \/ \E r \in inflight : LimiterIncrement(r)
  \/ \E r \in inflight : ValidateContactForm(r)

SpecC == Init /\ [][NextC]_vars

\* what is typed into the page: a message long enough for the page
PersonForm ==
  [GoodFields EXCEPT !.message = Str(<<"H", "e", "l", "l", "o", " ", "a", "g", "a", "i", "n">>)]

\* forms: one that page and server accept, one with a message that only the
\* server accepts, one with a last name that only the page accepts, one
\* without first name
FormChoices ==
  {PersonForm, GoodFields,
   [PersonForm EXCEPT !.last_name = Str(Rep("b", 51))],
   [PersonForm EXCEPT !.first_name = Str(<<>>)]}

\* instants of SpecF: the page has been open for 3 seconds, for more than an hour
InstantsF == {StartTime + MIN_TIME_MS, StartTime + MAX_TIME_MS + 1}

\* The page of client A in front of the server: the visitor fills the form
\* and submits it, the request runs through the pipeline, the page shows
\* the response.
NextF ==
  \/ \E t \in InstantsF : Tick(t)
  \/ \E f \in FormChoices, h \in {<<>>, <<"x">>} : Fill(f, h)
  \/ Submit(MaxSubmits)
  \/ \E r \in inflight : ContactLimiter(r)
  \/ \E r \in inflight : ValidateContactForm(r)
  \/ \E r \in inflight : HandleContact(r)
  \/ \E r \in inflight : Deliver(r)

SpecF == Init /\ [][NextF]_vars

\* The application from the body parser on, one request at a time, with
\* payloads that are JSON and payloads that are not.  Every middleware runs
\* to its end once it is entered: no step waits for anything outside.
NextP ==
  \/ inflight = {} /\ \E ip \in Clients, b \in Bodies(now) : Post(ip, b, TRUE, MaxPosts)
  \/ inflight = {} /\ \E ip \in Clients : Post(ip, NoBody, FALSE, MaxPosts)
  \/ \E r \in inflight : BodyParser(r)
  \/ \E r \in inflight : ContactLimiter(r)
  \/ \E r \in inflight : ValidateContactForm(r)
  \/ \E r \in inflight : HandleContact(r)
  \/ \E r \in inflight : Finish(r)

SpecP == Init /\ [][NextP]_vars

\* messages around the limits of the server (5, 2000) and of the page (10),
\* some with whitespace around them, and a request without message
MessageChoices ==
  {Undefined, Str(<<>>), Str(<<" ", "H", "i", " ", " ", " ">>), Str(Rep("m", 4)),
   Str(<<" ">> \o Rep("m", 5)), Str(Rep("m", 9)), Str(Rep("m", 10) \o <<" ">>),
   Str(Rep("m", 2000) \o <<"\n">>), Str(Rep("m", 2001))}

\* the submissions of SpecM: a person's, with each of the messages
BodiesM(t) ==
  {MakeBody(Str(<<>>), Str(NumberToString(t - MIN_TIME_MS)), [GoodFields EXCEPT !.message = m]) :
     m \in MessageChoices}

\* Two clients sending forms that differ in the message only.
NextM ==
  \/ inflight = {} /\ \E ip \in Clients, b \in BodiesM(now) : Receive(ip, b, MaxMessages)
  \/ \E r \in inflight : ContactLimiter(r)
  \/ \E r \in inflight : ValidateContactForm(r)
  \/ \E r \in inflight : HandleContact(r)
  \/ \E r \in inflight : Finish(r)

SpecM == Init /\ [][NextM]_vars

\* answers that do not come from the router: the error page of express.json
\* for a payload over 100kb, a JSON error with a message, and a page of
\* HTML sent with status 200
OtherAnswers ==
  {errorPage(413),
   [status |-> 500, json |-> [keys |-> {"message"}, message |-> "Internal Server Error",
                              errors |-> <<>>]],
   [status |-> 200, json |-> [keys |-> {}, message |-> "", errors |-> <<>>]]}

\* forms of SpecB: one that page and server accept, one without first name
FormChoicesB == {PersonForm, [PersonForm EXCEPT !.first_name = Str(<<>>)]}

\* instants of SpecB: the page has been open for 3 seconds, for more than
\* an hour, and 3 seconds more
InstantsB ==
  {StartTime + MIN_TIME_MS, StartTime + MAX_TIME_MS + 1,
   StartTime + MAX_TIME_MS + 1 + MIN_TIME_MS}

\* The page of client A with everything that can happen to its request:
\* the pipeline answers it, something in front of the router answers it,
\* or the network fails; the visitor can reload the page.
NextB ==
  \/ \E t \in InstantsB : Tick(t)
  \/ \E f \in FormChoicesB : Fill(f, <<>>)
  \/ Submit(MaxSubmits)
  \/ Reload
  \/ \E r \in inflight : ContactLimiter(r)
  \/ \E r \in inflight : ValidateContactForm(r)
  \/ \E r \in inflight : HandleContact(r)
  \/ \E r \in inflight, resp \in OtherAnswers : Intercept(r, resp)
  \/ \E r \in inflight : FetchFails(r)
  \/ \E r \in inflight : Deliver(r)

SpecB == Init /\ [][NextB]_vars

\* instants of SpecD: the millisecond after the start, and one window later
InstantsD == {StartTime + 1, StartTime + windowMs}

\* One client sending a person's and a bot's submissions one after the
\* other; the answered requests are kept, so that their responses can be
\* compared.
NextD ==
  \/ \E t \in InstantsD : Tick(t)
  \/ /\ \A r \in inflight : r.stage = "done"
     /\ \E b \in Bodies(now) : Receive("A", b, MaxKept)
  \/ \E r \in inflight : ContactLimiter(r)
  \/ \E r \in inflight : ValidateContactForm(r)
  \/ \E r \in inflight : HandleContact(r)

SpecD == Init /\ [][NextD]_vars

(* ---------------------------------------------------------------------- *)
(* Properties                                                              *)
(* ---------------------------------------------------------------------- *)

Answered(r) == r.stage = "done"

\* the errors of a response body whose path is p
ErrorsAt(errors, p) == SelectSeq(errors, LAMBDA e : e.path = p)

HasError(errors, p, msg) == \E i \in 1..Len(errors) : errors[i] = Error(p, msg)

\* C1: handleContact runs for a request only if the rate limiter allowed it
\* and validation produced no error, and a request answered 400 or 429 has
\* never reached handleContact.
C1_HandlerOnlyAfterPassing ==
  /\ \A r \in inflight :
       /\ (r.stage = "handleContact" \/ r.handled) =>
            /\ r.totalHits >= 1 /\ r.totalHits <= 3
            /\ r.validated
            /\ r.errors = <<>>
            /\ \A p \in {"honeypot", "form_timestamp", "first_name", "last_name",
                          "email", "message"} :
                 ErrorsAt(runChains(r.sent, r.validatedAt).errors, p) = <<>>
       /\ r.status \in {400, 429} => ~r.handled
  /\ console.written => \E r \in inflight : r.handled /\ r.status = 200

C1_Witness ==
  \E r \in inflight : r.handled /\ r.status = 200 /\ r.totalHits = 3 /\ console.written

\* C2: a request the rate limiter denies is answered 429 with a body that
\* holds the message and nothing else (no errors array), and neither the
\* validation nor handleContact runs for it, whatever it contains.
C2_DeniedIs429MessageOnly ==
  \A r \in inflight :
    r.totalHits > 3 =>
      /\ Answered(r) /\ r.status = 429 /\ r.sends = 1
      /\ r.json.keys = {"message"}
      /\ r.json.message = "Too many contact form submissions. Please try again later."
      /\ r.json.errors = <<>>
      /\ ~r.validated /\ r.errors = <<>> /\ r.body = r.sent
      /\ ~r.handled /\ ~console.written

C2_Witness ==
  \E r \in inflight :
    /\ r.totalHits > 3 /\ r.status = 429
    /\ runChains(r.sent, now).errors # <<>>
    /\ Truthy(r.sent.honeypot)

RECURSIVE RefWindowStart(_, _)
\* The start of the window the i-th request of the history h falls in, by
\* the rule of the claims: the first request opens a window; a request less
\* than 60,000 ms after the start of the current window stays in it; any
\* later request opens a new one.
RefWindowStart(h, i) ==
  IF i = 1 THEN h[1].at
  ELSE LET prev == RefWindowStart(h, i - 1)
       IN IF h[i].at - prev < 60000 THEN prev ELSE h[i].at

\* the position of the i-th request of h among the requests of its window
RefOrdinal(h, i) ==
  Cardinality({k \in 1..i : RefWindowStart(h, k) = RefWindowStart(h, i)})

\* the history entry of the request r, once the limiter has seen it
EntryOf(r) == hist[r.ip][Len(hist[r.ip])]

\* C3: for any client and any window (60,000 ms from its first request),
\* the first 3 requests are allowed and every further request of the same
\* window, from the 4th on, is denied with 429.
C3_FirstMaxAllowedRestDenied ==
  /\ \A c \in Clients : \A i \in 1..Len(hist[c]) :
       hist[c][i].allowed <=> RefOrdinal(hist[c], i) <= 3
  /\ \A r \in inflight :
       r.totalHits > 0 =>
         /\ ~EntryOf(r).allowed => Answered(r) /\ r.status = 429
         /\ EntryOf(r).allowed => r.status # 429

C3_Witness ==
  \E r \in inflight :
    /\ r.totalHits > 0 /\ r.status = 429
    /\ Len(hist[r.ip]) = 5
    /\ RefOrdinal(hist[r.ip], 5) = 5
    /\ hist[r.ip][5].at > hist[r.ip][1].at
    /\ \A i \in 1..5 : hist[r.ip][i].allowed <=> i <= 3

\* C4: a request arriving 60,000 ms or more after the start of the
\* client's current window is allowed and starts a new window with count 1,
\* also when the client was being denied in the previous window; a request
\* inside the window, denied ones included, leaves the window's end as it is.
C4_ElapsedWindowResets ==
  \A c \in Clients : \A i \in 2..Len(hist[c]) :
    LET h == hist[c]
    IN IF h[i].at - RefWindowStart(h, i - 1) >= 60000
       THEN h[i].allowed /\ h[i].totalHits = 1 /\ h[i].resetTime = h[i].at + 60000
       ELSE /\ h[i].resetTime = h[i - 1].resetTime
            /\ h[i].resetTime = RefWindowStart(h, i - 1) + 60000
            /\ h[i].totalHits = h[i - 1].totalHits + 1

C4_Witness ==
  \E c \in Clients :
    /\ Len(hist[c]) = 5
    /\ ~hist[c][4].allowed
    /\ hist[c][4].at > hist[c][1].at
    /\ hist[c][5].at - hist[c][1].at = 60000
    /\ hist[c][5].allowed /\ hist[c][5].totalHits = 1
    /\ store[c].totalHits = 1

\* the requests of h allowed at positions i..j
AllowedBetween(h, i, j) == {k \in i..j : h[k].allowed}

\* C5 as stated (sliding window): in every interval of length 60,000 ms at
\* most 3 requests of one client are allowed.
C5_SlidingWindow ==
  \A c \in Clients : \A i \in 1..Len(hist[c]) : \A j \in i..Len(hist[c]) :
    hist[c][j].at - hist[c][i].at < 60000
      => Cardinality(AllowedBetween(hist[c], i, j)) <= 3

\* C5 as amended (fixed window): within one window, which runs for
\* 60,000 ms from the first request that opens it, at most 3 requests of one
\* client are allowed.
C5_FixedWindow ==
  \A c \in Clients : \A i \in 1..Len(hist[c]) :
    Cardinality({k \in 1..Len(hist[c]) :
                   /\ RefWindowStart(hist[c], k) = RefWindowStart(hist[c], i)
                   /\ hist[c][k].allowed}) <= 3

\* two windows meet: more than 3 requests allowed within two milliseconds
C5_Witness ==
  \E c \in Clients :
    /\ Len(hist[c]) = 5
    /\ \A k \in 1..5 : hist[c][k].allowed
    /\ hist[c][5].at - hist[c][2].at < 60000
    /\ RefWindowStart(hist[c], 2) # RefWindowStart(hist[c], 5)

\* the limiter let the request r through
AllowedByLimiter(r) == r.totalHits >= 1 /\ r.totalHits <= 3

\* a text value that is not empty
NonEmptyText(v) == v.t = "string" /\ v.s # <<>>

\* the form_timestamp the client sent, as an integer
SentTimestamp(r) == parseInt(r.sent.form_timestamp)

\* now - form_timestamp, with now read when the request is validated (or,
\* for a request the validation never saw, the current time)
ElapsedOf(r) == (IF r.validated THEN r.validatedAt ELSE now) - SentTimestamp(r).n

TooQuickly == "Form submitted too quickly. Possible bot."

Expired == "Form expired. Please refresh the page and try again."

MissingOrInvalid == "Missing or invalid timestamp."

\* C6 as stated: every submission whose honeypot is not empty is answered
\* 400 with an error whose path is honeypot, whatever the other fields and
\* the timestamp are.
C6_HoneypotAlways400 ==
  \A r \in inflight :
    Answered(r) /\ NonEmptyText(r.sent.honeypot) =>
      r.status = 400 /\ ErrorsAt(r.json.errors, "honeypot") # <<>>

\* C6 as amended: every submission that the rate limiter allows and whose
\* honeypot is not empty is answered 400 with an error whose path is
\* honeypot, whatever the other fields and the timestamp are.
C6_HoneypotIs400 ==
  \A r \in inflight :
    Answered(r) /\ AllowedByLimiter(r) /\ NonEmptyText(r.sent.honeypot) =>
      /\ r.status = 400 /\ r.json.keys = {"errors"}
      /\ ErrorsAt(r.json.errors, "honeypot") # <<>>

C6_Witness ==
  \E r \in inflight :
    /\ Answered(r) /\ NonEmptyText(r.sent.honeypot) /\ r.status = 400
    /\ r.json.errors = <<Error("honeypot", "Bot detected via honeypot field.")>>

\* C7 as stated: every submission with now - form_timestamp < 3000, a
\* negative elapsed time included, is answered 400 with an error whose path
\* is form_timestamp and whose message says it was submitted too quickly.
C7_TooQuicklyAlways400 ==
  \A r \in inflight :
    Answered(r) /\ ~SentTimestamp(r).nan /\ ElapsedOf(r) < 3000 =>
      r.status = 400 /\ HasError(r.json.errors, "form_timestamp", TooQuickly)

\* C7 as amended: every submission that the rate limiter allows, with
\* now - form_timestamp < 3000, a negative elapsed time included, is answered
\* 400 with an error whose path is form_timestamp and whose message says it
\* was submitted too quickly.
C7_TooQuicklyIs400 ==
  \A r \in inflight :
    Answered(r) /\ AllowedByLimiter(r) /\ ~SentTimestamp(r).nan /\ ElapsedOf(r) < 3000 =>
      /\ r.status = 400 /\ r.json.keys = {"errors"}
      /\ HasError(r.json.errors, "form_timestamp", TooQuickly)

C7_Witness ==
  \E r \in inflight :
    /\ Answered(r) /\ r.status = 400
    /\ ~SentTimestamp(r).nan /\ ElapsedOf(r) < 0
    /\ r.json.errors = <<Error("form_timestamp", TooQuickly)>>

\* C8: every submission with now - form_timestamp > 3,600,000 is answered
\* 400 with an error whose path is form_timestamp and whose message says
\* the form expired.
C8_ExpiredAlways400 ==
  \A r \in inflight :
    Answered(r) /\ ~SentTimestamp(r).nan /\ ElapsedOf(r) > 3600000 =>
      r.status = 400 /\ HasError(r.json.errors, "form_timestamp", Expired)

\* the value of a field after the trimming its rules start with
Trimmed(v) == trim(toStringEV(v))

\* the four business fields meet their rules: a name is not empty, at most
\* 50 long and made of letters, whitespace, hyphen, apostrophe and period;
\* the email is not empty, has the shape of an address and is at most 100
\* long once normalized; the message is 5 to 2000 long
MeetsFieldRules(b) ==
  /\ \A v \in {Trimmed(b.first_name), Trimmed(b.last_name)} :
       /\ v # <<>> /\ Len(v) <= 50
       /\ \A i \in 1..Len(v) : IsLetter(v[i]) \/ IsSpace(v[i]) \/ v[i] \in {"-", "'", "."}
  /\ Trimmed(b.email) # <<>>
  /\ isEmail(Trimmed(b.email))
  /\ Len(toStringEV(normalizeEmail(Trimmed(b.email)))) <= 100
  /\ Len(Trimmed(b.message)) >= 5 /\ Len(Trimmed(b.message)) <= 2000

\* the submission of r has a timestamp that parses, an elapsed time within
\* [3000, 3600000], an empty honeypot and four fields meeting their rules
FullyValid(r) ==
  /\ ~SentTimestamp(r).nan
  /\ ElapsedOf(r) >= 3000 /\ ElapsedOf(r) <= 3600000
  /\ r.sent.honeypot \in {Undefined, Str(<<>>)}
  /\ MeetsFieldRules(r.sent)

\* C9 as stated: every submission with a valid timestamp whose elapsed
\* time is within [3000, 3600000], an empty honeypot and four fields
\* meeting their rules is answered 200 with the success message.
C9_ValidAlways200 ==
  \A r \in inflight :
    Answered(r) /\ FullyValid(r) =>
      r.status = 200 /\ r.json.message = "Thank you for contacting us! Your message has been received."

\* C9 as amended: every submission that the rate limiter allows, with a
\* valid timestamp whose elapsed time is within [3000, 3600000] (both ends
\* accepted), an empty honeypot and four fields meeting their rules, is
\* answered 200 with the success message.
C9_ValidIs200 ==
  \A r \in inflight :
    Answered(r) /\ AllowedByLimiter(r) /\ FullyValid(r) =>
      /\ r.status = 200 /\ r.json.keys = {"message"}
      /\ r.json.message = "Thank you for contacting us! Your message has been received."

C9_Witness ==
  \E r \in inflight :
    /\ Answered(r) /\ r.status = 200
    /\ ElapsedOf(r) = 3600000
    /\ r.sent.first_name = EdgeFields.first_name
    /\ r.sent.email = EdgeFields.email
    /\ r.sent.message = EdgeFields.message

\* C10: the timestamp rule fails with "Missing or invalid timestamp."
\* exactly when form_timestamp is missing or does not parse as an integer;
\* a value that parses as an integer t, t = 0 included, is classified by
\* elapsed = now - t alone: too quickly if elapsed < 3000, expired if
\* elapsed > 3600000, pass otherwise; exactly one outcome is produced.
C10_TimestampClassification ==
  \A r \in inflight :
    r.validated =>
      LET e == ErrorsAt(r.errors, "form_timestamp")
      IN /\ Len(e) <= 1
         /\ HasError(e, "form_timestamp", MissingOrInvalid) <=> SentTimestamp(r).nan
         /\ ~SentTimestamp(r).nan =>
              /\ HasError(e, "form_timestamp", TooQuickly) <=> ElapsedOf(r) < 3000
              /\ HasError(e, "form_timestamp", Expired) <=> ElapsedOf(r) > 3600000
              /\ e = <<>> <=> (ElapsedOf(r) >= 3000 /\ ElapsedOf(r) <= 3600000)

BotFields == {"honeypot", "form_timestamp"}

BusinessFields == {"first_name", "last_name", "email", "message"}

\* the response body of r has an error of the honeypot or of the timestamp
HasBotError(r) == \E i \in 1..Len(r.json.errors) : r.json.errors[i].path \in BotFields

\* the business field p of the body b meets every rule of the field
FieldMeetsRules(b, p) ==
  LET v == Trimmed(b[p])
  IN CASE p \in {"first_name", "last_name"} ->
            /\ v # <<>> /\ Len(v) <= 50
            /\ \A i \in 1..Len(v) : IsLetter(v[i]) \/ IsSpace(v[i]) \/ v[i] \in {"-", "'", "."}
       [] p = "email" ->
            v # <<>> /\ isEmail(v) /\ Len(toStringEV(normalizeEmail(v))) <= 100
       [] p = "message" -> Len(v) >= 5 /\ Len(v) <= 2000

\* C11 as stated: when the honeypot or the timestamp rule fails, the field
\* rules are not evaluated: the errors of the 400 response have the path
\* honeypot or form_timestamp only, and none has the path first_name,
\* last_name, email or message, even when those fields are invalid.
C11_FailFastBetweenStages ==
  \A r \in inflight :
    Answered(r) /\ r.status = 400 /\ HasBotError(r) =>
      \A i \in 1..Len(r.json.errors) : r.json.errors[i].path \in BotFields

\* C11 as amended: the honeypot rule, the timestamp rule and the field
\* rules are evaluated together: when the honeypot or the timestamp rule
\* fails, the errors of the 400 response hold, besides the honeypot or
\* form_timestamp entries, an entry for each of first_name, last_name, email
\* and message that is invalid, and none for a field that is valid.
C11_BotAndFieldErrorsTogether ==
  \A r \in inflight :
    Answered(r) /\ r.status = 400 /\ HasBotError(r) =>
      \A p \in BusinessFields :
        ErrorsAt(r.json.errors, p) # <<>> <=> ~FieldMeetsRules(r.sent, p)

C11_Witness ==
  \E r \in inflight :
    /\ Answered(r) /\ r.status = 400
    /\ ErrorsAt(r.json.errors, "honeypot") # <<>>
    /\ ErrorsAt(r.json.errors, "form_timestamp") # <<>>
    /\ ErrorsAt(r.json.errors, "first_name") # <<>>
    /\ ErrorsAt(r.json.errors, "last_name") = <<>>
    /\ ErrorsAt(r.json.errors, "email") = <<>>
    /\ ErrorsAt(r.json.errors, "message") = <<>>

\* the messages of the rules that the business field p of the body b fails,
\* rule by rule on the trimmed value (the length of an email is that of
\* its normalized form)
FailedRules(b, p) ==
  LET v == Trimmed(b[p])
      nameOk == \A i \in 1..Len(v) : IsLetter(v[i]) \/ IsSpace(v[i]) \/ v[i] \in {"-", "'", "."}
  IN CASE p = "first_name" ->
            (IF v = <<>> THEN {"First name is required."} ELSE {})
            \cup (IF Len(v) > 50 THEN {"First name cannot exceed 50 characters."} ELSE {})
            \cup (IF v = <<>> \/ ~nameOk THEN {"First name contains invalid characters."} ELSE {})
       [] p = "last_name" ->
            (IF v = <<>> THEN {"Last name is required."} ELSE {})
            \cup (IF Len(v) > 50 THEN {"Last name cannot exceed 50 characters."} ELSE {})
            \cup (IF v = <<>> \/ ~nameOk THEN {"Last name contains invalid characters."} ELSE {})
       [] p = "email" ->
            (IF v = <<>> THEN {"Email is required."} ELSE {})
            \cup (IF ~isEmail(v) THEN {"Please enter a valid email address."} ELSE {})
            \cup (IF Len(toStringEV(normalizeEmail(v))) > 100 THEN {"Email is too long."} ELSE {})
       [] p = "message" ->
            (IF v = <<>> THEN {"Message is required."} ELSE {})
            \cup (IF Len(v) < 5 THEN {"Message must be at least 5 characters."} ELSE {})
            \cup (IF Len(v) > 2000 THEN {"Message cannot exceed 2000 characters."} ELSE {})

\* the messages of a sequence of errors
Messages(errors) == {errors[i].msg : i \in 1..Len(errors)}

\* C12: the field rules are not fail-fast: for every submission that
\* reaches the validation and fails a rule of first_name, last_name, email
\* or message, the single 400 response holds exactly one error entry for
\* every failed rule of every one of the four fields, so that no failure
\* hides another one of the same field or of another field.
C12_EveryFailedRuleReported ==
  \A r \in inflight :
    r.validated /\ (\E p \in BusinessFields : FailedRules(r.sent, p) # {}) =>
      /\ Answered(r) /\ r.status = 400 /\ r.sends = 1 /\ r.json.keys = {"errors"}
      /\ \A p \in BusinessFields :
           /\ Messages(ErrorsAt(r.json.errors, p)) = FailedRules(r.sent, p)
           /\ Len(ErrorsAt(r.json.errors, p)) = Cardinality(FailedRules(r.sent, p))

C12_Witness ==
  \E r \in inflight :
    /\ Answered(r) /\ r.status = 400 /\ ~HasBotError(r)
    /\ Len(ErrorsAt(r.json.errors, "first_name")) = 2
    /\ Len(ErrorsAt(r.json.errors, "last_name")) = 1
    /\ Len(ErrorsAt(r.json.errors, "email")) = 2
    /\ Len(ErrorsAt(r.json.errors, "message")) = 2

\* the rules of validateContactForm in the order they are declared (the
\* three outcomes of the timestamp rule in the order they are tested)
DeclaredRules ==
  <<Error("honeypot", "Bot detected via honeypot field."),
    Error("form_timestamp", MissingOrInvalid),
    Error("form_timestamp", TooQuickly),
    Error("form_timestamp", Expired),
    Error("first_name", "First name is required."),
    Error("first_name", "First name cannot exceed 50 characters."),
    Error("first_name", "First name contains invalid characters."),
    Error("last_name", "Last name is required."),
    Error("last_name", "Last name cannot exceed 50 characters."),
    Error("last_name", "Last name contains invalid characters."),
    Error("email", "Email is required."),
    Error("email", "Please enter a valid email address."),
    Error("email", "Email is too long."),
    Error("message", "Message is required."),
    Error("message", "Message must be at least 5 characters."),
    Error("message", "Message cannot exceed 2000 characters.")>>

\* the position of the error e among the declared rules, 0 if it is none
RuleRank(e) ==
  IF \E k \in 1..Len(DeclaredRules) : DeclaredRules[k] = e
  THEN CHOOSE k \in 1..Len(DeclaredRules) : DeclaredRules[k] = e
  ELSE 0

\* C13: the errors of a 400 response are in rule declaration order:
\* honeypot, form_timestamp, first_name, last_name, email, message, and
\* within one field in the order its rules are declared (required before
\* maximum length before character class).
C13_ErrorsInDeclarationOrder ==
  \A r \in inflight :
    Answered(r) /\ r.status = 400 =>
      /\ \A i \in 1..Len(r.json.errors) : RuleRank(r.json.errors[i]) > 0
      /\ \A i \in 1..Len(r.json.errors) : \A j \in (i + 1)..Len(r.json.errors) :
           RuleRank(r.json.errors[i]) < RuleRank(r.json.errors[j])

C13_Witness ==
  \E r \in inflight :
    /\ Answered(r) /\ r.status = 400
    /\ Len(r.json.errors) = 9
    /\ [i \in 1..9 |-> r.json.errors[i].path] =
         <<"honeypot", "form_timestamp", "first_name", "first_name", "last_name",
           "email", "email", "message", "message">>

\* the errors of the four business fields, in order
FieldErrors(errors) == SelectSeq(errors, LAMBDA e : e.path \in BusinessFields)

\* the errors of a second run of the chains on the request r, on the body
\* as the first run left it and at the same instant
SecondRun(r) == runChains(r.body, r.validatedAt).errors

\* C14 as stated: running the four field rules a second time on the same
\* submission object, as the first run left it and at the same instant,
\* yields the same ordered error sequence as the first run.
C14_Idempotent ==
  \A r \in inflight :
    r.validated => FieldErrors(SecondRun(r)) = FieldErrors(r.errors)

\* C14 as amended: a second run on the object as the first run left it
\* yields the same ordered errors for first_name, last_name and message
\* (the first run leaves their trimmed values, and trimming twice changes
\* nothing).
C14_IdempotentButEmail ==
  \A r \in inflight :
    r.validated =>
      \A p \in {"first_name", "last_name", "message"} :
        ErrorsAt(SecondRun(r), p) = ErrorsAt(r.errors, p)

C14_Witness ==
  \E r \in inflight :
    /\ r.validated
    /\ r.sent.first_name = Undefined /\ r.body.first_name = Str(<<>>)
    /\ r.sent.message = Str(<<" ">>) /\ r.body.message = Str(<<>>)
    /\ Len(ErrorsAt(r.errors, "first_name")) = 2
    /\ Len(ErrorsAt(SecondRun(r), "message")) = 2
    /\ ErrorsAt(SecondRun(r), "email") # ErrorsAt(r.errors, "email")

\* C15 as stated: the field rules have no side effect: after validation
\* the values of first_name, last_name, email and message in the request
\* body, which handleContact reads later, are those the client sent.
C15_FieldsUnchanged ==
  \A r \in inflight :
    r.validated => \A p \in BusinessFields : r.body[p] = r.sent[p]

\* the body of r holds the sanitized values: the names and the message
\* trimmed, the email trimmed and normalized, the honeypot and the timestamp
\* as they were sent
BodySanitized(r) ==
  /\ r.body.first_name = Str(Trimmed(r.sent.first_name))
  /\ r.body.last_name = Str(Trimmed(r.sent.last_name))
  /\ r.body.message = Str(Trimmed(r.sent.message))
  /\ r.body.email = normalizeEmail(Trimmed(r.sent.email))
  /\ r.body.honeypot = r.sent.honeypot
  /\ r.body.form_timestamp = r.sent.form_timestamp

\* C15 as amended: the only side effect of the validation is on the
\* submission itself: it replaces first_name, last_name and message by
\* their trimmed text and email by its trimmed and normalized form, which
\* are the values handleContact then reads and logs; the honeypot and the
\* timestamp stay as sent, and a validation step changes neither the
\* limiter's store, nor the clock, nor the console.
C15_OnlySanitizesBody ==
  /\ [](\A r \in inflight :
          /\ r.validated => BodySanitized(r)
          /\ ~r.validated => r.body = r.sent
          /\ r.handled /\ console.written =>
               console.entry = [first_name |-> Str(Trimmed(r.sent.first_name)),
                                last_name |-> Str(Trimmed(r.sent.last_name)),
                                email |-> normalizeEmail(Trimmed(r.sent.email)),
                                message |-> Str(Trimmed(r.sent.message))])
  /\ [][\A r \in inflight :
          ValidateContactForm(r) =>
            /\ store' = store /\ hist' = hist /\ now' = now /\ nreq' = nreq
            /\ console' = Nothing]_vars

C15_Witness ==
  \E r \in inflight :
    /\ r.handled /\ r.status = 200 /\ console.written
    /\ r.sent.first_name = Str(<<" ", "A", "l", " ">>)
    /\ console.entry.first_name = Str(<<"A", "l">>)
    /\ r.sent.email = Str(<<"A", "l", ".", "B", "+", "x", "@", "G", "M", "a", "i", "l", ".", "c", "o", "m">>)
    /\ console.entry.email = Str(<<"a", "l", "b", "@", "g", "m", "a", "i", "l", ".", "c", "o", "m">>)

\* the requests of the client c that the limiter has let through
PassedLimiter(c) ==
  {r \in inflight : r.ip = c /\ r.stage \notin {"contactLimiter", "increment"} /\ r.status # 429}

\* C16: however the steps of concurrently arriving requests of one client
\* interleave, the limiter's read-modify-write of the client's counter is
\* atomic: every hit is counted once (the k-th hit counted in a window
\* gets the count k and the store holds the number of hits), so that at most
\* 3 requests of the client are allowed within one window.
C16_NoLostIncrement ==
  \A c \in Clients :
    /\ \A i \in 1..Len(hist[c]) :
         /\ hist[c][i].totalHits = RefOrdinal(hist[c], i)
         /\ hist[c][i].allowed <=> RefOrdinal(hist[c], i) <= 3
    /\ hist[c] # <<>> =>
         store[c].exists /\ store[c].totalHits = RefOrdinal(hist[c], Len(hist[c]))
    /\ Cardinality({k \in 1..Len(hist[c]) :
                      /\ RefWindowStart(hist[c], k) = RefWindowStart(hist[c], Len(hist[c]))
                      /\ hist[c][k].allowed}) <= 3
    /\ Cardinality(PassedLimiter(c)) <= 3

\* four requests inside the limiter together; the one that arrived first
\* is counted last and denied while the other three have not been validated yet
C16_Witness ==
  \E r \in inflight :
    /\ r.id = 1 /\ r.totalHits = 4 /\ r.status = 429
    /\ Cardinality(inflight) = 4
    /\ \A q \in inflight \ {r} : q.stage = "validateContactForm" /\ q.ip = r.ip

\* C17: the limiter's windows are kept per client and belong to the limiter
\* alone: the window of a client (count and end) changes only in the
\* limiter's step of a request of that same client, so that a request of B
\* never changes whether the next request of A is allowed, and the
\* validation, the handler and the sending of a response leave every
\* window as it is.
C17_WindowsPerClient ==
  [][/\ \A c \in Clients :
          store'[c] # store[c] =>
            \E r \in inflight : r.ip = c /\ ContactLimiter(r)
     /\ \A r \in inflight :
          ValidateContactForm(r) \/ HandleContact(r) \/ Finish(r) => store' = store
     /\ \A r \in inflight :
          ContactLimiter(r) =>
            \A c \in Clients \ {r.ip} :
              /\ store'[c] = store[c]
              /\ overLimit(increment(store'[c], now').totalHits)
                   = overLimit(increment(store[c], now).totalHits)]_vars

\* B has sent requests and been served while A has used up its window
C17_Witness ==
  /\ store["A"].totalHits = 3
  /\ store["B"].totalHits = 2
  /\ \E r \in inflight : r.ip = "B" /\ r.handled /\ r.totalHits = 2
  /\ hist["A"][3].at <= hist["B"][1].at

AllFields == BotFields \cup BusinessFields

\* the response of r is one of the three documented ones
DocumentedResponse(r) ==
  \/ /\ r.status = 200 /\ r.json.keys = {"message"}
     /\ r.json.message # "" /\ r.json.errors = <<>>
  \/ /\ r.status = 400 /\ r.json.keys = {"errors"}
     /\ r.json.errors # <<>>
     /\ \A i \in 1..Len(r.json.errors) : r.json.errors[i].path \in AllFields
  \/ /\ r.status = 429 /\ r.json.keys = {"message"}
     /\ r.json.message # "" /\ r.json.errors = <<>>

\* the stages of a request that has no response yet; the step of each of
\* them is enabled whenever a request is at it, and leads to the next stage
\* or to the response
Stages == <<"express.json", "contactLimiter", "validateContactForm", "handleContact">>

\* C18: every POST /api/contact request receives exactly one response (a
\* request that has none yet is at a stage of the pipeline, whose step
\* answers it or passes it on), and that response is 200 with a message and
\* no errors, or 400 with a non-empty errors array whose entries all have a
\* path among the six fields, or 429 with a message and no errors array.
C18_OneDocumentedResponse ==
  \A r \in inflight :
    /\ r.sends <= 1
    /\ ~Answered(r) => r.sends = 0 /\ \E k \in 1..Len(Stages) : r.stage = Stages[k]
    /\ Answered(r) => r.sends = 1 /\ DocumentedResponse(r)

\* C19: when a 400 response holds an error whose path is honeypot or
\* form_timestamp, the page shows the generic "Submission blocked" message
\* instead of field-specific errors: once the response has been handled no
\* business field is highlighted and no error text stands next to one.
C19_BotErrorShowsNoFieldError ==
  \A r \in Shown :
    r.status = 400 /\ HasBotError(r) =>
      /\ page.responseText = "Submission blocked: Possible bot detected."
      /\ page.errorField \cap BusinessFields = {}
      /\ \A id \in BusinessFields : page.errorSpan[id] = ""

\* the label of a name field in the server's messages
NameLabel(p) == IF p = "first_name" THEN "First name" ELSE "Last name"

\* the text v consists of letters, whitespace, hyphen, apostrophe and
\* period only, and of at least one of them
OnlyNameCharacters(v) ==
  /\ Len(v) >= 1
  /\ \A i \in 1..Len(v) : IsLetter(v[i]) \/ IsSpace(v[i]) \/ v[i] \in {"-", "'", "."}

\* C20: for first_name and last_name the server reports each rule on its
\* own, on the trimmed value: "is required" iff the value is empty, "cannot
\* exceed 50 characters" iff it is longer than 50, "contains invalid
\* characters" iff it does not consist solely of letters, whitespace,
\* hyphen, apostrophe and period (which an empty value does not); so an empty
\* or whitespace-only name is answered 400 with the "required" error
\* followed by the invalid-characters error for that field.
C20_NameRulesIndependent ==
  \A r \in inflight : \A p \in {"first_name", "last_name"} :
    r.validated =>
      LET v == Trimmed(r.sent[p])
          e == ErrorsAt(r.errors, p)
      IN /\ HasError(e, p, NameLabel(p) \o " is required.") <=> v = <<>>
         /\ HasError(e, p, NameLabel(p) \o " cannot exceed 50 characters.") <=> Len(v) > 50
         /\ HasError(e, p, NameLabel(p) \o " contains invalid characters.")
              <=> ~OnlyNameCharacters(v)
         /\ v = <<>> =>
              /\ Answered(r) /\ r.status = 400
              /\ ErrorsAt(r.json.errors, p) =
                   <<Error(p, NameLabel(p) \o " is required."),
                     Error(p, NameLabel(p) \o " contains invalid characters.")>>

\* a whitespace-only last name with every other field valid
C20_Witness ==
  \E r \in inflight :
    /\ Answered(r) /\ r.status = 400
    /\ r.sent.last_name = Str(<<" ", " ">>)
    /\ r.json.errors = <<Error("last_name", "Last name is required."),
                         Error("last_name", "Last name contains invalid characters.")>>

\* the page's rule for the message m typed into its textarea
PageAcceptsMessage(m) ==
  validateField([LoadedPage(StartTime) EXCEPT !.message = m], "message").ok

TooShort == "Message must be at least 5 characters."

TooLong == "Message cannot exceed 2000 characters."

\* C21: the server accepts a message exactly when its trimmed length lies
\* in [5, 2000]: a trimmed length below 5 is answered 400 with the
\* minimum-length error for message, one above 2000 with the maximum-length
\* error, and a message the page's rule accepts (trimmed length of 10 or
\* more) never gets the minimum-length error.
C21_MessageLengthWindow ==
  \A r \in inflight :
    r.validated =>
      LET v == Trimmed(r.sent.message)
          e == ErrorsAt(r.errors, "message")
      IN /\ e = <<>> <=> (Len(v) >= 5 /\ Len(v) <= 2000)
         /\ HasError(e, "message", TooShort) <=> Len(v) < 5
         /\ HasError(e, "message", TooLong) <=> Len(v) > 2000
         /\ Len(v) < 5 \/ Len(v) > 2000 =>
              /\ Answered(r) /\ r.status = 400
              /\ ErrorsAt(r.json.errors, "message") = e
         /\ r.sent.message.t = "string" /\ PageAcceptsMessage(r.sent.message.s) =>
              /\ Len(v) >= 10
              /\ ~HasError(e, "message", TooShort)

\* "Hi" between spaces, with every other field valid
C21_Witness ==
  \E r \in inflight :
    /\ Answered(r) /\ r.status = 400
    /\ r.sent.message = Str(<<" ", "H", "i", " ", " ", " ">>)
    /\ r.json.errors = <<Error("message", TooShort)>>

\* the requests that get their response in the step at hand
NewlyAnswered ==
  {r \in inflight' : r.stage = "done" /\ \A q \in inflight : q.id = r.id => q.stage # "done"}

\* C22: a step writes a log record exactly when it answers one request with
\* 200, so that the log records are as many as the 200 responses; the record
\* holds the four business fields of that request, as validation left them,
\* and nothing else (neither honeypot nor form_timestamp); a step that
\* answers a request 400 or 429 writes no record.
C22_OneLogRecordPer200 ==
  [][/\ Cardinality({r \in NewlyAnswered : r.status = 200}) = (IF console'.written THEN 1 ELSE 0)
     /\ \A r \in NewlyAnswered :
          /\ r.status = 200 =>
               /\ r.sends = 1
               /\ DOMAIN console'.entry = BusinessFields
               /\ \A p \in BusinessFields : console'.entry[p] = r.body[p]
          /\ r.status \in {400, 429} => ~console'.written]_vars

\* the third request of a behaviour is logged and answered 200
C22_Witness ==
  \E r \in inflight :
    /\ Answered(r) /\ r.status = 200 /\ r.id = 3
    /\ console.written /\ console.entry.message = r.body.message

\* the requests of the page that have no outcome on the page yet
Pending == {r \in inflight : r.stage # "shown"}

\* the requests whose outcome the page handles in the step at hand, as the
\* page got them (status 0 and no body when the network failed)
NewlyShown ==
  {r \in inflight' : r.stage = "shown" /\ \E q \in Pending : q.id = r.id}

\* the numbers of the requests that are sent in the step at hand
NewlySent == {r.id : r \in inflight'} \ {r.id : r \in inflight}

PageValid == \A id \in inputs : validateField(page, id).ok

\* C23: the page sends a request only in a submit of a form that passes its
\* validation, and only one: a step sends at most one POST /api/contact;
\* it sends none when a required field fails validateField; the step that
\* handles an error response or a network failure sends none, so that
\* nothing is in flight afterwards until the next submit.
C23_NoRetryNoInvalidPost ==
  [][/\ nreq' \in {nreq, nreq + 1}
     /\ NewlySent = (IF nreq' = nreq + 1 THEN {nreq'} ELSE {})
     /\ nreq' = nreq + 1 =>
          /\ PageValid
          /\ NewlyShown = {}
          /\ page'.responseText = "Sending message..."
          /\ \A q \in inflight' : q.id = nreq' => q.sent = formData(page) /\ q.sends = 0
     /\ ~PageValid => nreq' = nreq
     /\ NewlyShown # {} => nreq' = nreq /\ inflight' = NewlyShown]_vars

\* the network failed for the second request of the page, and nothing is in
\* flight
C23_Witness ==
  /\ nreq = 2 /\ Pending = {}
  /\ \E r \in Shown : r.id = 2 /\ r.status = 0
  /\ page.responseText = FailedToFetch /\ page.responseClass = "error"

\* C26: the submit of a valid form puts "Sending message..." with the
\* class info on the page, and the page stays so exactly while the fetch is
\* pending; the step that handles the outcome leaves the class success or
\* error: success only for an ok response with a JSON body, error for a 400
\* with errors, a 429, any other response that is not ok, a network failure
\* and a body that is not JSON; with nothing pending the class is never info.
C26_SendingThenSuccessOrError ==
  /\ [](/\ Pending # {} =>
             page.responseText = "Sending message..." /\ page.responseClass = "info"
        /\ Pending = {} => page.responseClass # "info")
  /\ [][/\ nreq' = nreq + 1 =>
              page'.responseText = "Sending message..." /\ page'.responseClass = "info"
        /\ \A r \in NewlyShown :
             /\ page'.responseClass \in {"success", "error"}
             /\ page'.responseClass = "success" <=> (r.status = 200 /\ r.json.keys # {})
             /\ page'.responseText # "" /\ page'.responseText # "Sending message..."
             /\ r.status = 429 => page'.responseText = TooMany]_vars

\* a response that is neither ok, nor a 400 with errors, nor a 429: the page
\* shows its message as an error
C26_Witness ==
  /\ Pending = {}
  /\ \E r \in Shown : r.status = 500 /\ r.json.message = "Internal Server Error"
  /\ page.responseText = "Internal Server Error" /\ page.responseClass = "error"

\* what the visitor entered and the hidden timestamp
Entered(pg) ==
  <<pg.first_name, pg.last_name, pg.email, pg.message, pg.honeypot, pg.form_timestamp>>

DeniedByLimiter(r) == r.totalHits > 3

\* C24: any two requests the rate limiter denies get the same response,
\* status and body, whatever their fields, honeypot and timestamp, the
\* count they reached and the time left in the window.
C24_DenialsIdentical ==
  \A r, q \in inflight :
    DeniedByLimiter(r) /\ DeniedByLimiter(q) =>
      /\ Answered(r) /\ Answered(q)
      /\ r.status = q.status /\ r.json = q.json
      /\ r.status = 429 /\ r.errors = <<>> /\ ~r.validated

\* a person's and a bot's submission, denied at different instants with
\* different counts
C24_Witness ==
  \E r, q \in inflight :
    /\ r.totalHits = 4 /\ q.totalHits = 5
    /\ r.status = 429 /\ q.status = 429
    /\ Truthy(r.sent.honeypot) /\ ~Truthy(q.sent.honeypot)
    /\ r.sent.form_timestamp # q.sent.form_timestamp
    /\ hist["A"][4].at < hist["A"][5].at

\* the requests before r that fall in the window of r, whatever their answer
EarlierInWindow(r) ==
  {q \in inflight : q.id < r.id /\ q.ip = r.ip
                    /\ RefWindowStart(hist[r.ip], q.id) = RefWindowStart(hist[r.ip], r.id)}

\* C25: every request that reaches the rate limiter counts, whatever its
\* answer: the count of a request is one more than the number of earlier
\* requests in its window, those answered 400 included; after 3 requests of
\* any kind in a window the next one in it is denied with 429, a fully valid
\* submission too.
C25_EveryRequestConsumesQuota ==
  \A r \in inflight :
    r.totalHits > 0 =>
      /\ r.totalHits = Cardinality(EarlierInWindow(r)) + 1
      /\ Cardinality(EarlierInWindow(r)) >= 3 => Answered(r) /\ r.status = 429
      /\ Cardinality(EarlierInWindow(r)) < 3 /\ Answered(r) => r.status \in {200, 400}

\* a valid submission denied after three submissions that validation rejected
C25_Witness ==
  \E r \in inflight :
    /\ r.status = 429 /\ FullyValid(r)
    /\ Cardinality(EarlierInWindow(r)) = 3
    /\ \A q \in EarlierInWindow(r) : q.status = 400

====
